---- MODULE Spec2Model ----
(***************************************************************************)
(* The go-nitro client engine (client/engine/engine.go): one task that     *)
(* takes API events, chain events and peer messages from a select and, for *)
(* each, reads an objective from the store, updates and cranks it, writes  *)
(* it back, executes the declared side effects and records progress.       *)
(*                                                                         *)
(* engine.go is modelled statement by statement.  The packages it calls    *)
(* (protocols: Objective.Update/Crank/Approve/Reject; store; msg; chain)   *)
(* are not among the source files; they are modelled from the              *)
(* specification's sections 3, 4.3 and 4.6.                                *)
(***************************************************************************)
EXTENDS Integers, Sequences, FiniteSets, TLC

\* ------------------------------------------------------------- bounds
\* Largest holdings a chain event reports.
MaxHoldings == 1
\* Largest number of signatures one inbound message carries.
MaxSigs == 2
\* The clock stops the model after this many events were taken from the select.
MaxTime == 4

\* ---------------------------------------------------------- vocabulary
\* The empty ObjectiveId (the Go literal ``).
NoId == ""
\* A nil protocols.Objective (what a lookup of a missing objective yields).
NilObjective == [nil |-> TRUE]
\* No event in hand / no crank result in hand.
NoEvent == [none |-> TRUE]
NoCrank == [none |-> TRUE]

\* The ledger channel L and the virtual channel V that L funds.
Channels == {"L", "V"}
\* The two objectives of the model: the direct funding of L, and the virtual
\* funding of V, which references L.
ObjectiveIds == {"DirectFund-L", "VirtualFund-V"}

\* This node is participant A (index 0); its peer is B (index 1).
Me == "A"
Peer == "B"
Participants == {Me, Peer}
\* A signer that is no participant of the channel.
Stranger == "M"
\* The channel secret key held by the store; it signs as Me.
SecretKey == "sk-A"
AddressOf(sk) == IF sk = "sk-A" THEN Me ELSE Stranger

\* The signed states the protocols exchange: L's prefund (turn 0), postfund
\* (turn 1) and guarantee update (turn 2), and V's prefund (turn 0).
States == {<<"L", 0>>, <<"L", 1>>, <<"L", 2>>, <<"V", 0>>}
Sig(ch, turn, by) == [ch |-> ch, turn |-> turn, by |-> by]
\* Signatures a peer message can carry.
InboundSigs == {Sig(s[1], s[2], by) : s \in States, by \in {Peer, Stranger}}

Statuses == {"Unapproved", "Approved", "Rejected", "Completed"}
Terminal(o) == o.status \in {"Rejected", "Completed"}
AdjudicationStatuses == {"unknown", "Finalized"}

Max(a, b) == IF a >= b THEN a ELSE b

\* ---------------------------------------------------- objective library
\* The channel an objective owns, the signed states it gathers signatures for,
\* and the channels it references (the channels of those states).
Owns(o) == IF o.id = "DirectFund-L" THEN "L" ELSE "V"
Expects(o) == IF o.id = "DirectFund-L" THEN {<<"L", 0>>, <<"L", 1>>}
              ELSE {<<"V", 0>>, <<"L", 2>>}
Refs(o) == {s[1] : s \in Expects(o)}

\* A freshly constructed objective, as an API call hands it to the engine.
NewObjective(id, status) ==
    [id |-> id, status |-> status, sigs |-> {}, holdings |-> 0,
     adj |-> "unknown", deposited |-> FALSE]

Approve(o) == [o EXCEPT !.status = "Approved"]
Reject(o) == [o EXCEPT !.status = "Rejected"]

\* Update folds one event into the objective: it unions the signatures on the
\* states the objective gathers, takes the max of the holdings and adopts a
\* non-unknown adjudication status.
Update(o, ev) ==
    [o EXCEPT !.sigs = @ \cup {s \in ev.Sigs : <<s.ch, s.turn>> \in Expects(o)},
              !.holdings = Max(@, ev.Holdings),
              !.adj = IF ev.AdjudicationStatus # "unknown"
                      THEN ev.AdjudicationStatus ELSE @]

NoSideEffects == [MessagesToSend |-> <<>>, TransactionsToSubmit |-> <<>>]
SignedBy(o, ch, turn, by) == Sig(ch, turn, by) \in o.sigs
\* The message carrying this node's signature on a state to the peer.
SigMessage(o, ch, turn, sk) ==
    [To |-> Peer, ObjectiveId |-> o.id, Sigs |-> {Sig(ch, turn, AddressOf(sk))}]
DepositTx(o) == [Type |-> "deposit", ChannelId |-> Owns(o)]
\* The channel's outcome allocates 1 to this node and nothing to the peer: this
\* node deposits 1, and the channel is funded when it holds 1.
TotalDeposit == 1

CrankResult(o, se, wf, err) ==
    [obj |-> o, sideEffects |-> se, waitingFor |-> wf, err |-> err]

\* One signing round: sign the state if this node has not, then wait for the peer.
\* Returns the objective, the messages to send and whether the round is complete.
SignRound(o, ch, turn, sk) ==
    LET mine == SignedBy(o, ch, turn, AddressOf(sk))
        o2 == IF mine THEN o
              ELSE [o EXCEPT !.sigs = @ \cup {Sig(ch, turn, AddressOf(sk))}]
    IN [obj |-> o2,
        msgs |-> IF mine THEN <<>> ELSE <<SigMessage(o, ch, turn, sk)>>,
        done |-> SignedBy(o, ch, turn, Peer)]

\* DirectFund: prefund signatures, deposits in participant order, postfund
\* signatures, completion.
CrankDirectFund(o, sk) ==
    LET pre == SignRound(o, "L", 0, sk)
    IN IF ~pre.done
       THEN CrankResult(pre.obj, [NoSideEffects EXCEPT !.MessagesToSend = pre.msgs],
                        "awaiting-peer-signature-on-prefund", FALSE)
       ELSE
       LET submit == ~pre.obj.deposited /\ pre.obj.holdings < TotalDeposit
           dep == IF submit THEN [pre.obj EXCEPT !.deposited = TRUE] ELSE pre.obj
           txs == IF submit THEN <<DepositTx(o)>> ELSE <<>>
       IN IF dep.holdings < TotalDeposit
          THEN CrankResult(dep, [MessagesToSend |-> pre.msgs,
                                 TransactionsToSubmit |-> txs],
                           "awaiting-deposit", FALSE)
          ELSE
          LET post == SignRound(dep, "L", 1, sk)
              se == [MessagesToSend |-> pre.msgs \o post.msgs,
                     TransactionsToSubmit |-> txs]
          IN IF ~post.done
             THEN CrankResult(post.obj, se, "awaiting-peer-signature-on-postfund", FALSE)
             ELSE CrankResult([post.obj EXCEPT !.status = "Completed"], se,
                              "completed", FALSE)

\* VirtualFund: prefund signatures on V, then the guarantee update on the
\* ledger channel L, completion.
CrankVirtualFund(o, sk) ==
    LET pre == SignRound(o, "V", 0, sk)
    IN IF ~pre.done
       THEN CrankResult(pre.obj, [NoSideEffects EXCEPT !.MessagesToSend = pre.msgs],
                        "awaiting-peer-signature-on-prefund", FALSE)
       ELSE
       LET g == SignRound(pre.obj, "L", 2, sk)
           se == [NoSideEffects EXCEPT !.MessagesToSend = pre.msgs \o g.msgs]
       IN IF ~g.done
          THEN CrankResult(g.obj, se, "awaiting-ledger-guarantee", FALSE)
          ELSE CrankResult([g.obj EXCEPT !.status = "Completed"], se,
                           "completed", FALSE)

\* Crank: a signature that does not recover to a participant is an error: the
\* offending signature is dropped and the objective is otherwise unchanged.  An
\* objective that is not Approved makes no progress.
Crank(o, sk) ==
    LET bad == {s \in o.sigs : s.by \notin Participants}
    IN IF bad # {}
       THEN CrankResult([o EXCEPT !.sigs = @ \ bad], NoSideEffects,
                        "nothing", TRUE)
       ELSE IF o.status = "Completed"
       THEN CrankResult(o, NoSideEffects, "completed", FALSE)
       ELSE IF o.status # "Approved"
       THEN CrankResult(o, NoSideEffects, "nothing", FALSE)
       ELSE IF o.id = "DirectFund-L" THEN CrankDirectFund(o, sk)
       ELSE CrankVirtualFund(o, sk)

WaitingFors == {"nothing", "awaiting-peer-signature-on-prefund", "awaiting-deposit",
                "awaiting-peer-signature-on-postfund", "awaiting-ledger-guarantee",
                "completed"}

\* ------------------------------------------------------------ the state
VARIABLES
    objectives,   \* store: objective id -> stored objective, or NilObjective
    progress,     \* store: objective id -> the waiting-for last recorded for it
    pc,           \* where the engine task is: the select of Run, or a statement of a handler
    handler,      \* the handler the task is in: "none", "message", "chain", "api"
    event,        \* the event the select handed to the handler
    target,       \* the id of the objective the handler read from the store
    cranked,      \* what Update(event).Crank(secretKey) returned to the handler
    setResults,   \* what each store.SetObjective call of the handler returned
    sent,         \* the e.msg.Send calls made while handling the event in hand
    submitted,    \* the e.chain.Submit calls made while handling the event in hand
    now,          \* the clock: the number of events Run has taken from its select
    completedObjectives, \* the ids emitted on the completed-objectives stream
    Response,     \* the Responses sent on the Response channels of API events
    waiting,      \* the inbound queue on which an observed sender waits, or "none"
    \* the RPC client (client/rpc/client.go)
    responses,    \* rc.responses: key -> the response channel stored under it
    idsToMethods, \* rc.idsToMethods: key -> the request method stored under it
    calls,        \* each CreateLedger / CloseLedger call: where it is, what it holds
    inflight,     \* the server's responses on their way to the response handler
    rpcHandler,   \* the response handler: idle, holding a response, or panicked
    sentOrder,    \* the calls in the order of their SendMessage
    \* the crypto functions (package crypto of scripts/start-rpc-servers.go)
    cPc,          \* where the sign-then-recover run is
    cMessage,     \* the message
    cSecretKey,   \* the secret key
    cSignature,   \* the signature in hand
    cRecovered,   \* what RecoverEthereumMessageSigner returned
    \* Signature.UnmarshalJSON / MarshalJSON (package crypto of scripts/start-rpc-servers.go)
    sPc,          \* where the decode-encode-decode run is
    sReceiver,    \* the Signature s that UnmarshalJSON is called on
    sInput,       \* the JSON bytes b in hand
    sErr,         \* the error the last call returned
    \* GuaranteeMetadata (channel/state/outcome/guarantee.go)
    gPc,          \* where the encode / decode run is
    gMetadata,    \* the GuaranteeMetadata m
    gBytes,       \* the byte string in hand
    gDecoded,     \* what DecodeIntoGuaranteeMetadata returned
    \* a safesync.Map used by concurrent callers (client/engine/store/safesync/safesync.go)
    mMap,         \* the sync.Map inside the Map
    mLog,         \* the Store and Delete calls made, in the order they took effect
    mLoaded       \* the last Load call: its key, the length of mLog then, its results

engineVars == <<objectives, progress, pc, handler, event, target, cranked, setResults,
                sent, submitted, now, completedObjectives, Response, waiting>>
rpcVars == <<responses, idsToMethods, calls, inflight, rpcHandler, sentOrder>>
cryptoVars == <<cPc, cMessage, cSecretKey, cSignature, cRecovered>>
sigVars == <<sPc, sReceiver, sInput, sErr>>
guaranteeVars == <<gPc, gMetadata, gBytes, gDecoded>>
mapVars == <<mMap, mLog, mLoaded>>
libVars == <<sigVars, guaranteeVars, mapVars>>
\* What no step of the engine touches.
outside == <<rpcVars, cryptoVars, libVars>>
vars == <<engineVars, rpcVars, cryptoVars, libVars>>

\* ---------------------------------------------------------------- store
\* Each store operation is a function of the stored objectives `objs`.
GetObjectiveById(objs, id) ==
    IF id \in DOMAIN objs THEN objs[id] ELSE NilObjective

\* The single non-terminal objective that owns the channel.
GetObjectiveByChannelId(objs, cid) ==
    LET owners == {id \in DOMAIN objs :
                     /\ objs[id] # NilObjective
                     /\ ~Terminal(objs[id])
                     /\ Owns(objs[id]) = cid}
    IN IF owners = {} THEN NilObjective ELSE objs[CHOOSE id \in owners : TRUE]

GetChannelSecretKey == SecretKey

\* The store after SetObjective(o) returned ok (TRUE) or an error (FALSE): an
\* atomic write under the objective's own id; a failed write changes nothing.
SetObjective(objs, o, ok) ==
    IF ok THEN [objs EXCEPT ![o.id] = o] ELSE objs
SetResult(ok) == IF ok THEN "ok" ELSE "err"

UpdateProgressLastMadeAt(prog, id, waitingFor) ==
    [prog EXCEPT ![id] = waitingFor]

\* --------------------------------------------------------------- inputs
SigSets == {S \in SUBSET InboundSigs : Cardinality(S) <= MaxSigs}
Messages == [ObjectiveId : ObjectiveIds, Sigs : SigSets]
ChainEvents == [ChannelId : Channels, Holdings : 0..MaxHoldings,
                AdjudicationStatus : AdjudicationStatuses]
\* An API call spawns a new, approved objective.
APIEvents == [ObjectiveToSpawn : {NilObjective} \cup
                                 {NewObjective(id, "Approved") : id \in ObjectiveIds},
              ObjectiveToReject : {NoId} \cup ObjectiveIds,
              ObjectiveToApprove : {NoId} \cup ObjectiveIds]

\* ----------------------------------------------------------------- Init
EngineInit ==
    /\ objectives = [id \in ObjectiveIds |-> NilObjective]
    /\ progress = [id \in ObjectiveIds |-> "nothing"]
    /\ pc = "select"
    /\ handler = "none"
    /\ event = NoEvent
    /\ target = NoId
    /\ cranked = NoCrank
    /\ setResults = <<>>
    /\ sent = <<>>
    /\ submitted = <<>>
    /\ now = 0
    /\ completedObjectives = <<>>
    /\ Response = <<>>
    /\ waiting = "none"

\* ------------------------------------------------------------------ Run
\* An event handed to a handler of its own while another handler may be running.
Select_Anytime(h, ev) ==
    /\ pc \in {"select", "SetObjective", "executeSideEffects"}
    /\ now < MaxTime
    /\ now' = now + 1
    /\ handler' = h
    /\ event' = ev
    /\ waiting' = IF waiting = h THEN "none" ELSE waiting
    /\ UNCHANGED <<completedObjectives, Response, outside>>

\* One case of Run's select fires: the event goes to handler h.
Select(h, ev) ==
    /\ pc = "select"
    /\ now < MaxTime
    /\ now' = now + 1
    /\ handler' = h
    /\ event' = ev
    /\ waiting' = IF waiting = h THEN "none" ELSE waiting
    /\ UNCHANGED <<completedObjectives, Response, outside>>

\* The handler returns to Run's loop; its locals are gone.
Return ==
    /\ pc' = "select"
    /\ handler' = "none"
    /\ event' = NoEvent
    /\ target' = NoId
    /\ cranked' = NoCrank
    /\ setResults' = <<>>
    /\ sent' = <<>>
    /\ submitted' = <<>>

\* A method call on a nil objective panics; nothing recovers, the task ends.
\* Otherwise the handler holds what objective.Update(ev).Crank(secretKey) returned.
UpdateAndCrank(objective, objEvent) ==
    IF objective = NilObjective
    THEN /\ pc' = "panicked"
         /\ UNCHANGED <<target, cranked>>
    ELSE /\ pc' = "SetObjective"
         /\ target' = objective.id
         /\ cranked' = Crank(Update(objective, objEvent), GetChannelSecretKey)

\* A message routed to the objective that owns a channel it carries signatures
\* for, whatever objective the message names.
handleMessage_ByChannel(message) ==
    /\ Select("message", message)
    /\ LET byChannel == {GetObjectiveByChannelId(objectives, s.ch) : s \in message.Sigs}
                            \ {NilObjective}
       IN UpdateAndCrank(IF byChannel # {} THEN CHOOSE o \in byChannel : TRUE
                         ELSE GetObjectiveById(objectives, message.ObjectiveId),
                         [Sigs |-> message.Sigs, Holdings |-> 0,
                          AdjudicationStatus |-> "unknown"])
    /\ UNCHANGED <<objectives, progress, setResults, sent, submitted>>

\* Run's case message := <-e.fromMsg, and handleMessage up to the crank.
handleMessage(message) ==
    /\ Select("message", message)
    /\ UpdateAndCrank(GetObjectiveById(objectives, message.ObjectiveId),
                      [Sigs |-> message.Sigs, Holdings |-> 0,
                       AdjudicationStatus |-> "unknown"])
    /\ UNCHANGED <<objectives, progress, setResults, sent, submitted>>

\* A chain event whose adjudication status is not passed on to the objective.
handleChainEvent_HoldingsOnly(chainEvent) ==
    /\ Select("chain", chainEvent)
    /\ UpdateAndCrank(GetObjectiveByChannelId(objectives, chainEvent.ChannelId),
                      [Sigs |-> {}, Holdings |-> chainEvent.Holdings,
                       AdjudicationStatus |-> "unknown"])
    /\ UNCHANGED <<objectives, progress, setResults, sent, submitted>>

\* A chain event taken while the handler of an earlier chain event still runs.
handleChainEvent_NoWait(chainEvent) ==
    /\ pc = "select" \/ (handler = "chain" /\ pc = "executeSideEffects")
    /\ now < MaxTime
    /\ now' = now + 1
    /\ handler' = "chain"
    /\ event' = chainEvent
    /\ waiting' = IF waiting = "chain" THEN "none" ELSE waiting
    /\ UpdateAndCrank(GetObjectiveByChannelId(objectives, chainEvent.ChannelId),
                      [Sigs |-> {}, Holdings |-> chainEvent.Holdings,
                       AdjudicationStatus |-> chainEvent.AdjudicationStatus])
    /\ UNCHANGED <<objectives, progress, setResults, sent, submitted>>
    /\ UNCHANGED <<completedObjectives, Response, outside>>

\* Run's case chainEvent := <-e.fromChain, and handleChainEvent up to the crank.
handleChainEvent(chainEvent) ==
    /\ Select("chain", chainEvent)
    /\ UpdateAndCrank(GetObjectiveByChannelId(objectives, chainEvent.ChannelId),
                      [Sigs |-> {}, Holdings |-> chainEvent.Holdings,
                       AdjudicationStatus |-> chainEvent.AdjudicationStatus])
    /\ UNCHANGED <<objectives, progress, setResults, sent, submitted>>

\* A write that stores the cranked objective and, with it, rejects every other
\* stored objective.
StoreCranked_AndOthers ==
    /\ pc = "SetObjective"
    /\ objectives' = [id \in ObjectiveIds |->
                        IF id = cranked.obj.id THEN cranked.obj
                        ELSE IF objectives[id] # NilObjective THEN Reject(objectives[id])
                        ELSE objectives[id]]
    /\ setResults' = Append(setResults, SetResult(TRUE))
    /\ pc' = "executeSideEffects"
    /\ UNCHANGED <<progress, handler, event, target, cranked, sent, submitted, now>>
    /\ UNCHANGED <<completedObjectives, Response, waiting, outside>>

\* _ = e.store.SetObjective(updatedProtocol): the error is discarded.
StoreCranked ==
    /\ pc = "SetObjective"
    /\ \E ok \in BOOLEAN :
         /\ objectives' = SetObjective(objectives, cranked.obj, ok)
         /\ setResults' = Append(setResults, SetResult(ok))
    /\ pc' = "executeSideEffects"
    /\ UNCHANGED <<progress, handler, event, target, cranked, sent, submitted, now>>
    /\ UNCHANGED <<completedObjectives, Response, waiting, outside>>

\* The side effects dispatched while the store write is still to come.
executeSideEffects_BeforeSetObjective ==
    /\ pc = "SetObjective"
    /\ sent = <<>> /\ submitted = <<>>
    /\ sent' = cranked.sideEffects.MessagesToSend
    /\ submitted' = cranked.sideEffects.TransactionsToSubmit
    /\ UNCHANGED <<objectives, progress, pc, handler, event, target, cranked,
                   setResults, now>>
    /\ UNCHANGED <<completedObjectives, Response, waiting, outside>>

\* e.executeSideEffects(sideEffects): every message is sent, then every
\* transaction is submitted.
executeSideEffects ==
    /\ pc = "executeSideEffects"
    /\ sent' = sent \o cranked.sideEffects.MessagesToSend
    /\ submitted' = submitted \o cranked.sideEffects.TransactionsToSubmit
    /\ pc' = "UpdateProgressLastMadeAt"
    /\ UNCHANGED <<objectives, progress, handler, event, target, cranked,
                   setResults, now>>
    /\ UNCHANGED <<completedObjectives, Response, waiting, outside>>

\* e.store.UpdateProgressLastMadeAt(id, waitingFor); the handler returns.
RecordProgress ==
    /\ pc = "UpdateProgressLastMadeAt"
    /\ progress' = UpdateProgressLastMadeAt(progress, target, cranked.waitingFor)
    /\ Return
    /\ UNCHANGED <<objectives, now>>
    /\ UNCHANGED <<completedObjectives, Response, waiting, outside>>

\* Run's case apiEvent := <-e.FromAPI, and handleAPIEvent's first branch:
\* if ObjectiveToSpawn != nil, store it.
handleAPIEvent_Spawn(apiEvent) ==
    /\ Select("api", apiEvent)
    /\ IF apiEvent.ObjectiveToSpawn # NilObjective
       THEN \E ok \in BOOLEAN :
              /\ objectives' = SetObjective(objectives, apiEvent.ObjectiveToSpawn, ok)
              /\ setResults' = Append(setResults, SetResult(ok))
       ELSE /\ objectives' = objectives
            /\ setResults' = Append(setResults, "none")
    /\ pc' = "Reject"
    /\ UNCHANGED <<progress, target, cranked, sent, submitted>>

\* A branch of handleAPIEvent that reads the objective stored under `id`,
\* applies Reject or Approve to it and stores the result; skipped when
\* `wanted` is the empty id.
APIBranch(wanted, id, approve, nextPc) ==
    LET objective == GetObjectiveById(objectives, id)
    IN /\ IF wanted = NoId
          THEN /\ objectives' = objectives
               /\ setResults' = Append(setResults, "none")
               /\ pc' = nextPc
          ELSE IF objective = NilObjective
          THEN /\ pc' = "panicked"
               /\ UNCHANGED <<objectives, setResults>>
          ELSE /\ \E ok \in BOOLEAN :
                    /\ objectives' = SetObjective(objectives,
                                        IF approve THEN Approve(objective)
                                        ELSE Reject(objective), ok)
                    /\ setResults' = Append(setResults, SetResult(ok))
               /\ pc' = nextPc
       /\ UNCHANGED <<progress, handler, event, target, cranked, sent, submitted, now>>
       /\ UNCHANGED <<completedObjectives, Response, waiting, outside>>

\* if ObjectiveToReject != ``: reject the objective it names.
handleAPIEvent_Reject ==
    /\ pc = "Reject"
    /\ APIBranch(event.ObjectiveToReject, event.ObjectiveToReject, FALSE, "Approve")

\* if ObjectiveToApprove != ``: approve the objective that
\* GetObjectiveById(apiEvent.ObjectiveToReject) returns.
handleAPIEvent_Approve ==
    /\ pc = "Approve"
    /\ APIBranch(event.ObjectiveToApprove, event.ObjectiveToReject, TRUE, "return")

\* handleAPIEvent returns to Run's loop.
handleAPIEvent_Return ==
    /\ pc = "return"
    /\ Return
    /\ UNCHANGED <<objectives, progress, now>>
    /\ UNCHANGED <<completedObjectives, Response, waiting, outside>>

\* The process stops while a handler runs (or after a panic) and is started
\* again: New binds the channels and Run waits in its select.  The store keeps
\* what was written; what the handler held is gone.  Neither New nor Run reads
\* the store.
Restart ==
    /\ pc # "select"
    /\ Return
    /\ UNCHANGED <<objectives, progress, now>>
    /\ UNCHANGED <<completedObjectives, Response, waiting, outside>>

\* The three inbound channels of Run's select.
Queues == {"api", "chain", "message"}
\* A sender starts to wait on inbound channel q with an event for the engine.
\* The engine looks at its channels only in the select, so the sender is
\* observed there.
Offer(q) ==
    /\ pc = "select"
    /\ now < MaxTime
    /\ waiting = "none"
    /\ waiting' = q
    /\ UNCHANGED <<objectives, progress, pc, handler, event, target, cranked,
                   setResults, sent, submitted, now, completedObjectives, Response,
                   outside>>

\* ------------------------------------------------------------ safesync.Map
\* A safesync.Map is a function from keys to values; Absent marks a key with no
\* value, and Zero is the zero value Load returns for it.
Absent == "absent"
Zero == "zero"
\* A Delete that empties the map.
Delete_Every(m, key) == [k \in DOMAIN m |-> Absent]
Load(m, id) ==
    IF m[id] # Absent THEN [value |-> m[id], ok |-> TRUE]
    ELSE [value |-> Zero, ok |-> FALSE]
Store(m, key, data) == [m EXCEPT ![key] = data]
Delete(m, key) == [m EXCEPT ![key] = Absent]

\* ------------------------------------------------------------- RPC client
\* Largest request id rand.Uint64() yields.
MaxRequestId == 2
RequestIds == 1..MaxRequestId
\* The goroutines that call CreateLedger or CloseLedger, once each.  A call's
\* response channel resRec is named after the call.
RpcCalls == {"c1", "c2"}
DirectFundRequestMethod == "direct_fund"
DirectDefundRequestMethod == "direct_defund"
\* The ledger channels the calls are about.
Ledgers == {"X", "Y"}
\* objReq.Id(rc.myAddress, rc.chainId): the objective id of a request.
ObjectiveRequestId(method, ledger) ==
    IF method = DirectFundRequestMethod
    THEN (IF ledger = "X" THEN "DirectFunding-X" ELSE "DirectFunding-Y")
    ELSE (IF ledger = "X" THEN "DirectDefunding-X" ELSE "DirectDefunding-Y")
RpcObjectiveIds ==
    {ObjectiveRequestId(m, l) :
        m \in {DirectFundRequestMethod, DirectDefundRequestMethod}, l \in Ledgers}
\* fmt.Sprintf("%d", id) and fmt.Sprintf("%v", id) of a uint64: its decimal form.
Sprintf(id) == ToString(id)
\* Every key the two maps are used with.
Keys == RpcObjectiveIds \cup {Sprintf(id) : id \in RequestIds}

NoCall == [pc |-> "idle", method |-> "", objectiveId |-> "", requestId |-> 0,
           objRes |-> [none |-> TRUE]]
NoResponse == [none |-> TRUE]

RpcInit ==
    /\ responses = [k \in Keys |-> Absent]
    /\ idsToMethods = [k \in Keys |-> Absent]
    /\ calls = [c \in RpcCalls |-> NoCall]
    /\ inflight = {}
    /\ rpcHandler = [pc |-> "idle", response |-> NoResponse, resRec |-> ""]
    /\ sentOrder = <<>>

\* A call builds its objective request, makes its response channel and stores
\* the channel under the request's objective id.
StoreResRec(c, method, ledger) ==
    /\ calls[c].pc = "idle"
    /\ LET id == ObjectiveRequestId(method, ledger)
       IN /\ responses' = Store(responses, id, c)
          /\ calls' = [calls EXCEPT ![c] = [@ EXCEPT !.pc = "stored",
                                                     !.method = method,
                                                     !.objectiveId = id]]
    /\ UNCHANGED <<idsToMethods, inflight, rpcHandler, sentOrder, engineVars, cryptoVars, libVars>>

CreateLedger(c, ledger) == StoreResRec(c, DirectFundRequestMethod, ledger)
CloseLedger(c, ledger) == StoreResRec(c, DirectDefundRequestMethod, ledger)

\* requestId := rand.Uint64(); the method is stored under the request id.
StoreMethod(c, requestId) ==
    /\ calls[c].pc = "stored"
    /\ idsToMethods' = Store(idsToMethods, Sprintf(requestId), calls[c].method)
    /\ calls' = [calls EXCEPT ![c] = [@ EXCEPT !.pc = "registered",
                                               !.requestId = requestId]]
    /\ UNCHANGED <<responses, inflight, rpcHandler, sentOrder, engineVars, cryptoVars, libVars>>

\* rc.nts.SendMessage: the request goes to the server, which answers it with a
\* response that carries the request's id and, as its result, the objective
\* (CreateLedger) or the objective id (CloseLedger) of the request.  The call
\* then waits on its response channel.
SendMessage(c) ==
    /\ calls[c].pc = "registered"
    /\ inflight' = inflight \cup {[Id |-> calls[c].requestId,
                                   Method |-> calls[c].method,
                                   Result |-> calls[c].objectiveId,
                                   answers |-> c]}
    /\ calls' = [calls EXCEPT ![c] = [@ EXCEPT !.pc = "waiting"]]
    /\ sentOrder' = Append(sentOrder, c)
    /\ UNCHANGED <<responses, idsToMethods, rpcHandler, engineVars, cryptoVars, libVars>>

\* The response handler takes a response, in any order: it looks up the method
\* of the response's id (panic when there is none), unmarshals the result as
\* that method's result type (panic when it is the other method's), and loads
\* the response channel stored under the result's objective id.
ResponseHandler_LoadAny(r) ==
    /\ rpcHandler.pc = "idle"
    /\ r \in inflight
    /\ inflight' = inflight \ {r}
    /\ LET found == Load(idsToMethods, Sprintf(r.Id))
           stored == {k \in RpcObjectiveIds : responses[k] # Absent}
       IN IF ~found.ok \/ found.value # r.Method
          THEN rpcHandler' = [pc |-> "panicked", response |-> r, resRec |-> ""]
          ELSE IF stored # {}
          THEN rpcHandler' = [pc |-> "Delete", response |-> r,
                              resRec |-> responses[CHOOSE k \in stored : TRUE]]
          ELSE rpcHandler' = rpcHandler
    /\ UNCHANGED <<responses, idsToMethods, calls, sentOrder, engineVars, cryptoVars, libVars>>

ResponseHandler_Load(r) ==
    /\ rpcHandler.pc = "idle"
    /\ r \in inflight
    /\ inflight' = inflight \ {r}
    /\ LET found == Load(idsToMethods, Sprintf(r.Id))
           resRec == Load(responses, r.Result)
       IN IF ~found.ok \/ found.value # r.Method
          THEN rpcHandler' = [pc |-> "panicked", response |-> r, resRec |-> ""]
          ELSE IF resRec.ok
          THEN rpcHandler' = [pc |-> "Delete", response |-> r, resRec |-> resRec.value]
          ELSE rpcHandler' = rpcHandler
    /\ UNCHANGED <<responses, idsToMethods, calls, sentOrder, engineVars, cryptoVars, libVars>>

\* rs.responses.Delete(fmt.Sprintf("%v", rpcResponse.Id)): the key is the
\* request id.
ResponseHandler_Delete ==
    /\ rpcHandler.pc = "Delete"
    /\ responses' = Delete(responses, Sprintf(rpcHandler.response.Id))
    /\ rpcHandler' = [rpcHandler EXCEPT !.pc = "Send"]
    /\ UNCHANGED <<idsToMethods, calls, inflight, sentOrder, engineVars, cryptoVars, libVars>>

\* resRec <- rpcResponse.Result: the channel is unbuffered, so the send happens
\* when the call that owns it receives (objRes := <-resRec) and returns; then
\* the handler deletes the request's method.
ResponseHandler_Send ==
    /\ rpcHandler.pc = "Send"
    /\ calls[rpcHandler.resRec].pc = "waiting"
    /\ calls' = [calls EXCEPT ![rpcHandler.resRec] =
                    [@ EXCEPT !.pc = "returned", !.objRes = rpcHandler.response]]
    /\ idsToMethods' = Delete(idsToMethods, Sprintf(rpcHandler.response.Id))
    /\ rpcHandler' = [pc |-> "idle", response |-> NoResponse, resRec |-> ""]
    /\ UNCHANGED <<responses, inflight, sentOrder, engineVars, cryptoVars, libVars>>

RpcNext ==
    \/ \E c \in RpcCalls, ledger \in Ledgers : CreateLedger(c, ledger)
    \/ \E c \in RpcCalls, ledger \in Ledgers : CloseLedger(c, ledger)
    \/ \E c \in RpcCalls, requestId \in RequestIds : StoreMethod(c, requestId)
    \/ \E c \in RpcCalls : SendMessage(c)
    \/ \E r \in inflight : ResponseHandler_Load(r)
    \/ ResponseHandler_Delete
    \/ ResponseHandler_Send

\* ------------------------------------------------------------------ crypto
\* Longest message.
MaxLen == 2
\* Messages are byte strings; two byte values are enough to tell messages apart.
MessageBytes == {0, 1}
RECURSIVE SeqsUpTo(_, _)
SeqsUpTo(S, n) ==
    IF n = 0 THEN {<<>>}
    ELSE LET shorter == SeqsUpTo(S, n - 1)
         IN shorter \cup {Append(q, x) : q \in {t \in shorter : Len(t) = n - 1}, x \in S}
CryptoMessages == SeqsUpTo(MessageBytes, MaxLen)
\* Valid secp256k1 secret keys.
SecretKeys == {"k1", "k2"}
\* crypto.PubkeyToAddress of the public key of a secret key.
PubkeyToAddress(k) == [addressOf |-> k]
\* types.Address{}, the zero address.
ZeroAddress == [addressOf |-> ""]
\* crypto.Keccak256, taken as injective: the digest stands for its preimage.
Keccak256(data) == [keccak |-> data]
\* The digest of "\x19Ethereum Signed Message:\n" + len(message) + message.
computeEthereumSignedMessageDigest(message) ==
    Keccak256(<<"\\x19Ethereum Signed Message:\\n", ToString(Len(message))>> \o message)

\* secp256k1.Sign(digest, secretKey): R and S are fixed by the digest and the
\* key; the 65th byte is the recovery id (0 or 1) of the signature's curve
\* point, given here as recid.
secp256k1_Sign(digest, secretKey, recid) ==
    [R |-> [digest |-> digest, key |-> secretKey, recid |-> recid],
     S |-> [digest |-> digest, key |-> secretKey],
     V |-> recid]
\* secp256k1.RecoverPubkey(digest, sig): an error for a recovery id above 3;
\* the signer's key for the digest that was signed and the recovery id of its
\* curve point; another key otherwise.
secp256k1_RecoverPubkey(digest, sig) ==
    IF sig.V > 3 THEN [pubKey |-> "", err |-> TRUE]
    ELSE IF sig.R.digest = digest /\ sig.S.digest = digest
            /\ sig.R.key = sig.S.key /\ sig.V = sig.R.recid
    THEN [pubKey |-> sig.R.key, err |-> FALSE]
    ELSE [pubKey |-> "another key", err |-> FALSE]

\* sig.V is a byte.
Byte(n) == n % 256

SignEthereumMessage(message, secretKey, recid) ==
    LET digest == computeEthereumSignedMessageDigest(message)
        sig == secp256k1_Sign(digest, secretKey, recid)
    IN IF sig.V < 27 THEN [sig EXCEPT !.V = Byte(sig.V + 27)] ELSE sig

\* RecoverEthereumMessageSigner without the step that maps V back below 27.
RecoverEthereumMessageSigner_KeepV(message, signature) ==
    LET digest == computeEthereumSignedMessageDigest(message)
        rec == secp256k1_RecoverPubkey(digest, signature)
    IN IF rec.err THEN [address |-> ZeroAddress, err |-> TRUE]
       ELSE [address |-> PubkeyToAddress(rec.pubKey), err |-> FALSE]

RecoverEthereumMessageSigner(message, signature) ==
    LET sig == IF signature.V >= 27 THEN [signature EXCEPT !.V = Byte(signature.V - 27)]
               ELSE signature
        digest == computeEthereumSignedMessageDigest(message)
        rec == secp256k1_RecoverPubkey(digest, sig)
    IN IF rec.err THEN [address |-> ZeroAddress, err |-> TRUE]
       ELSE [address |-> PubkeyToAddress(rec.pubKey), err |-> FALSE]

NoSignature == [none |-> TRUE]
NoRecovered == [none |-> TRUE]

\* No sign-then-recover run.
CryptoIdle ==
    /\ cPc = "idle"
    /\ cMessage = <<>>
    /\ cSecretKey = ""
    /\ cSignature = NoSignature
    /\ cRecovered = NoRecovered

\* A run starts with any message and any secret key.
CryptoStart ==
    /\ cPc = "start"
    /\ cMessage \in CryptoMessages
    /\ cSecretKey \in SecretKeys
    /\ cSignature = NoSignature
    /\ cRecovered = NoRecovered

\* sig, _ := SignEthereumMessage(cMessage, cSecretKey)
Sign ==
    /\ cPc = "start"
    /\ \E recid \in {0, 1} :
         cSignature' = SignEthereumMessage(cMessage, cSecretKey, recid)
    /\ cPc' = "signed"
    /\ UNCHANGED <<cMessage, cSecretKey, cRecovered, engineVars, rpcVars, libVars>>

\* The same signature in its 0/1 form, as secp256k1 itself writes it.
ToRecoveryId ==
    /\ cPc = "signed"
    /\ cSignature' = [cSignature EXCEPT !.V = Byte(@ - 27)]
    /\ cPc' = "recovery-id form"
    /\ UNCHANGED <<cMessage, cSecretKey, cRecovered, engineVars, rpcVars, libVars>>

\* RecoverEthereumMessageSigner(cMessage, cSignature)
Recover ==
    /\ cPc \in {"signed", "recovery-id form"}
    /\ cRecovered' = RecoverEthereumMessageSigner(cMessage, cSignature)
    /\ cPc' = "recovered"
    /\ UNCHANGED <<cMessage, cSecretKey, cSignature, engineVars, rpcVars, libVars>>

CryptoNext ==
    \/ Sign
    \/ ToRecoveryId
    \/ Recover

\* ------------------------------------------------- signature serialisation
\* The lengths UnmarshalJSON and SplitSignature cut a serialised signature at.
RLength == 32
RSLength == 64
SignatureLength == 65

\* The Signature with no R, no S and V = 0.
EmptySignature == [R |-> <<>>, S |-> <<>>, V |-> 0]
\* n bytes of value b.
Bytes(n, b) == [i \in 1..n |-> b]
\* A serialised signature [R||S||V] whose R bytes are all r and S bytes all s.
SigBytes(r, s, v) == Bytes(RLength, r) \o Bytes(RSLength - RLength, s) \o <<v>>

SplitSignature(concatenatedSignature) ==
    [R |-> SubSeq(concatenatedSignature, 1, RLength),
     S |-> SubSeq(concatenatedSignature, RLength + 1, RSLength),
     V |-> concatenatedSignature[RSLength + 1]]

joinSignature(signature) == signature.R \o signature.S \o <<signature.V>>

\* hexutil.Encode and json.Marshal of a string: the text stands for what it
\* encodes.
hexutil_Encode(bytes) == [hex |-> bytes]
json_Marshal(text) == [json |-> text]
\* JSON that is not a string, and a JSON string that is not 0x-prefixed hex.
NotAString == [json |-> [number |-> 1]]
NotHex == [json |-> [text |-> "zz"]]

MarshalJSON(s) == json_Marshal(hexutil_Encode(joinSignature(s)))

allZero(s) == \A i \in 1..Len(s) : s[i] = 0

\* s.UnmarshalJSON(b): the Signature s holds afterwards, and the error.
UnmarshalJSON(s, b) ==
    IF "hex" \notin DOMAIN b.json THEN [s |-> s, err |-> TRUE]
    ELSE LET joined == b.json.hex
         IN IF allZero(joined) THEN [s |-> s, err |-> FALSE]
            ELSE IF Len(joined) # SignatureLength THEN [s |-> s, err |-> TRUE]
            ELSE [s |-> [R |-> SubSeq(joined, 1, RLength),
                         S |-> SubSeq(joined, RLength + 1, RSLength),
                         V |-> joined[SignatureLength]],
                  err |-> FALSE]

\* The all-zero serialised signature.
ZeroSignatureJSON == json_Marshal(hexutil_Encode(Bytes(SignatureLength, 0)))

\* The byte strings handed to UnmarshalJSON.
SignatureInputs ==
    {json_Marshal(hexutil_Encode(j)) :
        j \in {Bytes(SignatureLength, 0), Bytes(0, 0), Bytes(RSLength, 0),
               Bytes(SignatureLength + 1, 0),
               SigBytes(1, 1, 27), SigBytes(1, 2, 28), SigBytes(0, 0, 1),
               SigBytes(0, 3, 0), <<1>>, Bytes(SignatureLength + 1, 2)}}
    \cup {NotAString, NotHex}
\* The Signatures UnmarshalJSON is called on.
SignatureReceivers ==
    {EmptySignature, SplitSignature(SigBytes(1, 1, 27)),
     SplitSignature(SigBytes(2, 1, 28)), SplitSignature(SigBytes(0, 0, 1))}

SigIdle ==
    /\ sPc = "idle"
    /\ sReceiver = EmptySignature
    /\ sInput = NotAString
    /\ sErr = FALSE

\* A run starts with any receiver and any input.
SigStart ==
    /\ sPc = "start"
    /\ sReceiver \in SignatureReceivers
    /\ sInput \in SignatureInputs
    /\ sErr = FALSE

\* err := sReceiver.UnmarshalJSON(sInput)
SigDecode ==
    /\ sPc \in {"start", "encoded"}
    /\ LET r == UnmarshalJSON(sReceiver, sInput)
       IN sReceiver' = r.s /\ sErr' = r.err
    /\ sPc' = IF sPc = "start" THEN "decoded" ELSE "decoded again"
    /\ UNCHANGED <<sInput, engineVars, rpcVars, cryptoVars, guaranteeVars, mapVars>>

\* sInput, _ = sReceiver.MarshalJSON(), to be decoded into another Signature.
SigEncode ==
    /\ sPc = "decoded"
    /\ sInput' = MarshalJSON(sReceiver)
    /\ sReceiver' \in SignatureReceivers
    /\ sPc' = "encoded"
    /\ UNCHANGED <<sErr, engineVars, rpcVars, cryptoVars, guaranteeVars, mapVars>>

SigNext ==
    \/ SigDecode
    \/ SigEncode

\* ------------------------------------------------------ guarantee metadata
\* An address has 20 bytes; the abi encoding of a static value fills a word of
\* 32 bytes.
AddressLength == 20
WordLength == 32
\* The addresses of Left and Right.
Addresses == {Bytes(AddressLength, a) : a \in {0, 1, 2}}
GuaranteeMetadatas == [Left : Addresses, Right : Addresses]
\* GuaranteeMetadata{}, the zero value.
ZeroGuaranteeMetadata == [Left |-> Bytes(AddressLength, 0), Right |-> Bytes(AddressLength, 0)]

\* abi.Arguments{{Type: guaranteeMetadataTy}}.Pack(m): the tuple (Left, Right)
\* of two addresses is static, one word each, the address right-aligned in
\* its word after zero bytes.
abi_Pack(m) ==
    Bytes(WordLength - AddressLength, 0) \o m.Left
        \o Bytes(WordLength - AddressLength, 0) \o m.Right
\* abi.Arguments{{Type: guaranteeMetadataTy}}.Unpack(data): an error when data
\* is empty or ends before the second word does; else the last 20 bytes of
\* the first word and of the second word, whatever the bytes before them in
\* their word and whatever follows the second word.
abi_Unpack(data) ==
    IF Len(data) < 2 * WordLength THEN [err |-> TRUE]
    ELSE [err |-> FALSE,
          unpacked |-> [Left |-> SubSeq(data, WordLength - AddressLength + 1, WordLength),
                        Right |-> SubSeq(data, 2 * WordLength - AddressLength + 1,
                                         2 * WordLength)]]

Encode(m) == abi_Pack(m)

\* json.Marshal of r gives an object with the keys Left and Right, each
\* address as hex text; json.Unmarshal fills the fields of GuaranteeMetadata
\* by those keys.
convertToGuaranteeMetadata(r) ==
    LET j == [Left |-> hexutil_Encode(r.Left), Right |-> hexutil_Encode(r.Right)]
    IN [Left |-> j.Left.hex, Right |-> j.Right.hex]

DecodeIntoGuaranteeMetadata(m) ==
    LET u == abi_Unpack(m)
    IN IF u.err THEN [metadata |-> ZeroGuaranteeMetadata, err |-> TRUE]
       ELSE [metadata |-> convertToGuaranteeMetadata(u.unpacked), err |-> FALSE]

\* Byte strings handed to DecodeIntoGuaranteeMetadata that Encode did not
\* make: cut short, with a byte set in the padding of a word, or with bytes
\* after the second word.
ForeignBytes ==
    LET e == abi_Pack([Left |-> Bytes(AddressLength, 1), Right |-> Bytes(AddressLength, 2)])
    IN {<<>>, SubSeq(e, 1, WordLength), SubSeq(e, 1, 2 * WordLength - 1),
        [e EXCEPT ![1] = 1], [e EXCEPT ![WordLength + 1] = 7], e \o <<0>>, e \o e}

NoDecoded == [none |-> TRUE]

GuaranteeIdle ==
    /\ gPc = "idle"
    /\ gMetadata = ZeroGuaranteeMetadata
    /\ gBytes = <<>>
    /\ gDecoded = NoDecoded

\* A run starts with any GuaranteeMetadata to encode, or with foreign bytes
\* to decode.
GuaranteeStart ==
    /\ gMetadata \in GuaranteeMetadatas
    /\ \/ gPc = "start" /\ gBytes = <<>>
       \/ gPc = "received" /\ gBytes \in ForeignBytes
    /\ gDecoded = NoDecoded

\* gBytes, _ = gMetadata.Encode()
EncodeMetadata ==
    /\ gPc = "start"
    /\ gBytes' = Encode(gMetadata)
    /\ gPc' = "encoded"
    /\ UNCHANGED <<gMetadata, gDecoded, engineVars, rpcVars, cryptoVars, sigVars, mapVars>>

\* DecodeIntoGuaranteeMetadata(gBytes)
DecodeMetadata ==
    /\ gPc \in {"encoded", "received"}
    /\ gDecoded' = DecodeIntoGuaranteeMetadata(gBytes)
    /\ gPc' = IF gPc = "encoded" THEN "round trip" ELSE "decoded"
    /\ UNCHANGED <<gMetadata, gBytes, engineVars, rpcVars, cryptoVars, sigVars, mapVars>>

GuaranteeNext ==
    \/ EncodeMetadata
    \/ DecodeMetadata

\* ------------------------------------------- a safesync.Map and its callers
\* Most Store and Delete calls made on the map.
MaxOps == 3
MapKeys == {"k1", "k2"}
\* The values of T stored, the zero value of T among them.
MapValues == {"v1", "v2", Zero}

NoLoad == [none |-> TRUE]

MapIdle ==
    /\ mMap = [k \in MapKeys |-> Absent]
    /\ mLog = <<>>
    /\ mLoaded = NoLoad

\* Some caller's o.Store(key, data).
MapStore(key, data) ==
    /\ Len(mLog) < MaxOps
    /\ mMap' = Store(mMap, key, data)
    /\ mLog' = Append(mLog, [op |-> "Store", key |-> key, data |-> data])
    /\ UNCHANGED <<mLoaded, engineVars, rpcVars, cryptoVars, sigVars, guaranteeVars>>

\* Some caller's o.Delete(key).
MapDelete(key) ==
    /\ Len(mLog) < MaxOps
    /\ mMap' = Delete(mMap, key)
    /\ mLog' = Append(mLog, [op |-> "Delete", key |-> key, data |-> Zero])
    /\ UNCHANGED <<mLoaded, engineVars, rpcVars, cryptoVars, sigVars, guaranteeVars>>

\* Some caller's value, ok := o.Load(id); the caller holds the results while
\* other callers go on.
MapLoad(id) ==
    /\ LET r == Load(mMap, id)
       IN mLoaded' = [id |-> id, after |-> Len(mLog), value |-> r.value, ok |-> r.ok]
    /\ UNCHANGED <<mMap, mLog, engineVars, rpcVars, cryptoVars, sigVars, guaranteeVars>>

MapNext ==
    \/ \E key \in MapKeys, data \in MapValues : MapStore(key, data)
    \/ \E key \in MapKeys : MapDelete(key)
    \/ \E id \in MapKeys : MapLoad(id)

\* The library functions at rest.
LibIdle ==
    /\ SigIdle
    /\ GuaranteeIdle
    /\ MapIdle

\* ----------------------------------------------------- the specifications
\* The engine, with the RPC client and the crypto functions at rest.
Init ==
    /\ EngineInit
    /\ RpcInit
    /\ CryptoIdle
    /\ LibIdle

\* The RPC client, with the engine and the crypto functions at rest.
RpcSpec == Init /\ [][RpcNext]_vars

\* The crypto functions, with the engine and the RPC client at rest.
CryptoInit ==
    /\ EngineInit
    /\ RpcInit
    /\ CryptoStart
    /\ LibIdle
CryptoSpec == CryptoInit /\ [][CryptoNext]_vars

\* Signature.UnmarshalJSON and MarshalJSON, with everything else at rest.
SigInit ==
    /\ EngineInit
    /\ RpcInit
    /\ CryptoIdle
    /\ SigStart
    /\ GuaranteeIdle
    /\ MapIdle
SigSpec == SigInit /\ [][SigNext]_vars

\* GuaranteeMetadata's Encode and Decode, with everything else at rest.
GuaranteeInit ==
    /\ EngineInit
    /\ RpcInit
    /\ CryptoIdle
    /\ SigIdle
    /\ GuaranteeStart
    /\ MapIdle
GuaranteeSpec == GuaranteeInit /\ [][GuaranteeNext]_vars

\* A safesync.Map with its callers, with everything else at rest.
MapSpec == Init /\ [][MapNext]_vars

\* The engine.
Next ==
    \/ \E apiEvent \in APIEvents : handleAPIEvent_Spawn(apiEvent)
    \/ handleAPIEvent_Reject
    \/ handleAPIEvent_Approve
    \/ handleAPIEvent_Return
    \/ \E message \in Messages : handleMessage(message)
    \/ \E chainEvent \in ChainEvents : handleChainEvent(chainEvent)
    \/ StoreCranked
    \/ executeSideEffects
    \/ RecordProgress
    \/ Restart

Spec == Init /\ [][Next]_vars

\* The engine with an observed sender on one of its inbound channels.
LiveNext ==
    \/ Next
    \/ \E q \in Queues : Offer(q)

\* The case of Run's select for inbound channel q.
TakeFrom(q) ==
    IF q = "api" THEN \E apiEvent \in APIEvents : handleAPIEvent_Spawn(apiEvent)
    ELSE IF q = "chain" THEN \E chainEvent \in ChainEvents : handleChainEvent(chainEvent)
    ELSE \E message \in Messages : handleMessage(message)

\* A statement of a running handler.
HandlerStep ==
    \/ StoreCranked
    \/ executeSideEffects
    \/ RecordProgress
    \/ handleAPIEvent_Reject
    \/ handleAPIEvent_Approve
    \/ handleAPIEvent_Return

\* The task keeps running its handler, and the select is fair to each of its
\* cases.
LiveSpec ==
    /\ Init
    /\ [][LiveNext]_vars
    /\ WF_vars(HandlerStep)
    /\ SF_vars(TakeFrom("api"))
    /\ SF_vars(TakeFrom("chain"))
    /\ SF_vars(TakeFrom("message"))

\* --------------------------------------------------------------- claims
\* The ObjectiveEvent handleMessage builds from a message, and the one
\* handleChainEvent builds from a chain event, as the claims state them.
EventOfMessage(m) ==
    [Sigs |-> m.Sigs, Holdings |-> 0, AdjudicationStatus |-> "unknown"]
EventOfChainEvent(e) ==
    [Sigs |-> {}, Holdings |-> e.Holdings, AdjudicationStatus |-> e.AdjudicationStatus]
Stored(id) == GetObjectiveById(objectives, id) # NilObjective

C2_FailedWriteDispatchesNothing ==
    (handler \in {"message", "chain"} /\ setResults = <<"err">>) =>
        /\ sent = <<>>
        /\ submitted = <<>>
        /\ cranked = Crank(Update(objectives[target],
                                  IF handler = "message" THEN EventOfMessage(event)
                                  ELSE EventOfChainEvent(event)), SecretKey)

\* C3: if Crank reports an error for an event, the input is dropped: no step
\* of the handler changes a stored objective (so its status stays), and no side
\* effect is dispatched.
C3_CrankErrorDropsInput ==
    [][(pc \in {"SetObjective", "executeSideEffects"} /\ cranked.err) =>
          /\ objectives' = objectives
          /\ sent' = <<>>
          /\ submitted' = <<>>]_vars

\* C4: an API event with a non-empty ObjectiveToApprove X approves the stored
\* objective X: the approve branch does not fail, and when its write succeeds
\* the store holds Approve() of the objective that was stored under X,
\* whatever ObjectiveToReject is.
C4_ApproveNamedObjective ==
    [][(/\ pc = "Approve"
        /\ event.ObjectiveToApprove # NoId
        /\ Stored(event.ObjectiveToApprove)) =>
          /\ pc' = "return"
          /\ setResults'[3] = "ok" =>
               objectives'[event.ObjectiveToApprove]
                 = Approve(objectives[event.ObjectiveToApprove])]_vars

\* C5: when one API event names the same objective in ObjectiveToReject and
\* ObjectiveToApprove (and the reject was written), the objective stored under
\* that id has status Rejected when handleAPIEvent returns.
C5_RejectTakesPrecedence ==
    (/\ pc = "return"
     /\ event.ObjectiveToReject # NoId
     /\ event.ObjectiveToReject = event.ObjectiveToApprove
     /\ setResults[2] = "ok") =>
        objectives[event.ObjectiveToReject].status = "Rejected"

\* C6: Rejected is terminal: once the objective stored under an id is
\* Rejected, no step changes its status, and no handler cranks it again.
C6_RejectedIsTerminal ==
    [][\A id \in ObjectiveIds :
          (Stored(id) /\ objectives[id].status = "Rejected") =>
             /\ objectives'[id] # NilObjective
             /\ objectives'[id].status = "Rejected"
             /\ ~(pc = "select" /\ pc' = "SetObjective" /\ target' = id)]_vars

C8_ChainEventAppliedToOwner ==
    [][(pc = "SetObjective" /\ handler = "chain") =>
          LET owner == GetObjectiveByChannelId(objectives, event.ChannelId)
              c == Crank(Update(owner, [Sigs |-> {}, Holdings |-> event.Holdings,
                                        AdjudicationStatus |-> event.AdjudicationStatus]),
                         SecretKey)
          IN /\ owner # NilObjective
             /\ target = owner.id
             /\ objectives' = [objectives EXCEPT ![owner.id] =
                                 IF setResults' = <<"ok">> THEN c.obj ELSE @]]_vars

\* C8 happens: a chain event for L with holdings and a known adjudication
\* status was applied to the objective that owns L and stored, while another
\* stored objective references L.
C8_Witness ==
    /\ handler = "chain"
    /\ pc = "executeSideEffects"
    /\ setResults = <<"ok">>
    /\ event.ChannelId = "L"
    /\ event.Holdings > 0
    /\ event.AdjudicationStatus # "unknown"
    /\ objectives[target].holdings = event.Holdings
    /\ objectives[target].adj = event.AdjudicationStatus
    /\ \E id \in ObjectiveIds \ {target} :
          Stored(id) /\ ~Terminal(objectives[id]) /\ "L" \in Refs(objectives[id])

\* C9: a message whose objective-id is not in the store does not make the
\* handler fail.
C9_MessageForNewObjectiveHandled ==
    ~(pc = "panicked" /\ handler = "message" /\ ~Stored(event.ObjectiveId))

\* C10: when handleAPIEvent returns from an event that spawned an objective,
\* the store holds that objective cranked with the secret key, and the side
\* effects of the crank have been dispatched.
C10_APIEventCranksAndDispatches ==
    (/\ pc = "return"
     /\ event.ObjectiveToSpawn # NilObjective
     /\ setResults = <<"ok", "none", "none">>) =>
        LET c == Crank(event.ObjectiveToSpawn, SecretKey)
        IN /\ objectives[event.ObjectiveToSpawn.id] = c.obj
           /\ sent = c.sideEffects.MessagesToSend
           /\ submitted = c.sideEffects.TransactionsToSubmit

\* How often id appears on a stream.
Count(stream, id) == Cardinality({i \in 1..Len(stream) : stream[i] = id})

\* C11: when a message or chain event has been handled whose Crank returned
\* waiting-for = completed for the first time for that objective, the id of the
\* objective is on the completed-objectives stream, and no id is on the stream
\* more than once.
C11_CompletedIdEmittedOnce ==
    [][(/\ pc = "UpdateProgressLastMadeAt"
        /\ pc' = "select"
        /\ cranked.waitingFor = "completed"
        /\ progress' # progress) =>
          /\ Count(completedObjectives', target) = 1
          /\ \A id \in ObjectiveIds : Count(completedObjectives', id) <= 1]_vars

\* C12: when the engine stops after SetObjective returned for an event and
\* before the event's side effects were dispatched, the engine that is started
\* again has dispatched those side effects when it waits in its select, with
\* no new event.
C12_RestartDispatchesPending ==
    [][(/\ pc = "executeSideEffects"
        /\ setResults = <<"ok">>
        /\ pc' = "select") =>
          /\ sent' = cranked.sideEffects.MessagesToSend
          /\ submitted' = cranked.sideEffects.TransactionsToSubmit]_vars

\* C13: chain events are handled in the order the chain service sent them on
\* its channel: the engine receives a chain event only in its select, when no
\* handler runs, and the handler of a chain event keeps that event until it
\* returns to the select after the store write, the dispatch and the progress
\* record (or the process is restarted), whatever other events were handled
\* before.
C13_ChainEventsInDeliveryOrder ==
    [][/\ (handler' = "chain" /\ event' # event) =>
            /\ pc = "select"
            /\ handler = "none"
            /\ now' = now + 1
       /\ (handler = "chain" /\ event' # event) =>
            /\ pc' = "select"
            /\ pc = "UpdateProgressLastMadeAt" \/ Restart]_vars

\* C13 happens: a second chain event for L is being handled, after an earlier
\* chain event for L (which brought the stored holdings) and a peer message
\* (which brought the peer's signature) were handled.
C13_Witness ==
    /\ handler = "chain"
    /\ pc = "SetObjective"
    /\ event.ChannelId = "L"
    /\ event.Holdings = 0
    /\ objectives[target].holdings > 0
    /\ \E s \in objectives[target].sigs : s.by = Peer
    /\ now = 4

\* C14: at most one handler is active: the engine takes an event only in its
\* select, with nothing of an earlier event in hand, and what a handler is
\* about to write is the crank of the objective the store holds at that
\* moment, so no other handler's write is overwritten.
C14_OneHandlerAtATime ==
    /\ [](pc = "select" <=> handler = "none")
    /\ [][(event' # event /\ event' # NoEvent) =>
             /\ pc = "select"
             /\ event = NoEvent
             /\ cranked = NoCrank
             /\ setResults = <<>> /\ sent = <<>> /\ submitted = <<>>]_vars
    /\ [](pc = "SetObjective" =>
             cranked = Crank(Update(objectives[target],
                                    IF handler = "message" THEN EventOfMessage(event)
                                    ELSE EventOfChainEvent(event)), SecretKey))

\* C14 happens: a handler is about to write an objective that an earlier
\* handler has already changed in the store.
C14_Witness ==
    /\ pc = "SetObjective"
    /\ handler = "message"
    /\ now >= 3
    /\ objectives[target].sigs # {}
    /\ cranked.obj # objectives[target]

\* C15: an event a sender offers on one of the three inbound channels is
\* eventually taken by the engine (or the clock of the model has run out).
C15_OfferedEventHandled ==
    \A q \in Queues : (waiting = q) ~> (waiting # q \/ now = MaxTime)

\* C16: when handleAPIEvent is about to return, the caller of the API event
\* has been sent a Response.
C16_APICallAnswered ==
    (handler = "api" /\ pc = "return") => Len(Response) > 0

\* The outstanding and returned calls have distinct objective ids.
DistinctObjectiveIds ==
    \A c1, c2 \in RpcCalls :
        (c1 # c2 /\ calls[c1].pc # "idle" /\ calls[c2].pc # "idle") =>
            calls[c1].objectiveId # calls[c2].objectiveId

\* C19: with distinct objective ids, the response handler holds the response
\* channel of the call whose objective id the response carries, and a call
\* that has returned holds the response that answers its own request, with
\* its own objective id.
C19_ResponseMatchesCall ==
    DistinctObjectiveIds =>
        /\ rpcHandler.pc \in {"Delete", "Send"} =>
              /\ calls[rpcHandler.resRec].objectiveId = rpcHandler.response.Result
              /\ rpcHandler.response.answers = rpcHandler.resRec
        /\ \A c \in RpcCalls :
              calls[c].pc = "returned" =>
                 /\ calls[c].objRes.Result = calls[c].objectiveId
                 /\ calls[c].objRes.answers = c

\* C19 happens: c1 sent its CreateLedger request first, c2 its CloseLedger
\* request second; the response to c2 arrived first and c2 has returned with
\* it while c1 still waits.
C19_Witness ==
    /\ sentOrder = <<"c1", "c2">>
    /\ calls["c1"].method = DirectFundRequestMethod
    /\ calls["c2"].method = DirectDefundRequestMethod
    /\ calls["c1"].pc = "waiting"
    /\ calls["c2"].pc = "returned"
    /\ calls["c2"].objRes.Result = calls["c2"].objectiveId

\* C20: SignEthereumMessage returns a signature with V in {27, 28};
\* RecoverEthereumMessageSigner of the message and that signature, in its
\* 27/28 form or in its 0/1 form, returns the address of the secret key and no
\* error.
C20_SignatureRoundTrip ==
    /\ cPc = "signed" => cSignature.V \in {27, 28}
    /\ cPc = "recovery-id form" => cSignature.V \in {0, 1}
    /\ cPc = "recovered" =>
          cRecovered = [address |-> PubkeyToAddress(cSecretKey), err |-> FALSE]

\* C20 happens: a signature with V = 28 was recovered to the address of its key.
C20_Witness ==
    /\ cPc = "recovered"
    /\ cSignature.V = 28
    /\ Len(cMessage) = MaxLen
    /\ cRecovered.address = PubkeyToAddress(cSecretKey)

\* C21: decoding the all-zero 65-byte serialised signature returns no error
\* and leaves the empty signature in the receiver, whatever the receiver held
\* before.
C21_ZeroDecodesToEmpty ==
    (sPc = "decoded" /\ sInput = ZeroSignatureJSON) =>
        (sErr = FALSE /\ sReceiver = EmptySignature)

\* C22: DecodeIntoGuaranteeMetadata(m.Encode()) returns m and no error, and a
\* byte string that is the encoding of no GuaranteeMetadata yields an error
\* and the zero GuaranteeMetadata.
C22_MetadataRoundTrip ==
    /\ gPc = "round trip" => gDecoded = [metadata |-> gMetadata, err |-> FALSE]
    /\ (gPc = "decoded" /\ \A m \in GuaranteeMetadatas : Encode(m) # gBytes) =>
          gDecoded = [metadata |-> ZeroGuaranteeMetadata, err |-> TRUE]

\* What Load(k) has to return after the calls of log: the value of the latest
\* Store(k, v) that no Delete(k) followed, or the zero value and false.
RECURSIVE Latest(_, _)
Latest(log, k) ==
    IF log = <<>> THEN [value |-> Zero, ok |-> FALSE]
    ELSE LET last == log[Len(log)]
         IN IF last.key # k THEN Latest(SubSeq(log, 1, Len(log) - 1), k)
            ELSE IF last.op = "Store" THEN [value |-> last.data, ok |-> TRUE]
            ELSE [value |-> Zero, ok |-> FALSE]

\* C23: whatever Store and Delete calls the callers have made, in whatever
\* order, a Load(k) returns the value of the latest Store(k, v) before it that
\* no Delete(k) followed, with true, or the zero value with false when there
\* is none; calls on other keys do not count.
C23_LoadReturnsLatestStore ==
    mLoaded # NoLoad =>
        [value |-> mLoaded.value, ok |-> mLoaded.ok]
            = Latest(SubSeq(mLog, 1, mLoaded.after), mLoaded.id)

\* C23 happens: k1 was stored twice, then k2 was deleted, and a Load(k1) after
\* that returned the second value.
C23_Witness ==
    /\ Len(mLog) = 3
    /\ mLog[1] = [op |-> "Store", key |-> "k1", data |-> "v1"]
    /\ mLog[2] = [op |-> "Store", key |-> "k1", data |-> "v2"]
    /\ mLog[3] = [op |-> "Delete", key |-> "k2", data |-> Zero]
    /\ mLoaded = [id |-> "k1", after |-> 3, value |-> "v2", ok |-> TRUE]

\* C24: when no call is outstanding and no response is on its way or in the
\* handler's hand, the responses map and the idsToMethods map are empty.
C24_BookkeepingDoesNotLeak ==
    (/\ \A c \in RpcCalls : calls[c].pc \in {"idle", "returned"}
     /\ inflight = {}
     /\ rpcHandler.pc = "idle") =>
        /\ \A k \in Keys : responses[k] = Absent
        /\ \A k \in Keys : idsToMethods[k] = Absent

\* C25: the response handler is never about to send on the response channel
\* of a call that has already returned, a channel with no receiver.
C25_HandlerSendsToAReceiver ==
    rpcHandler.pc = "Send" => calls[rpcHandler.resRec].pc # "returned"

\* C26: while a message or a chain event is handled, the store's objectives
\* change at most once, by the one write of the handler, which stores under
\* the id the handler loaded from an objective that keeps that id; every
\* other stored objective stays as it was.
C26_OneWritePerEvent ==
    /\ [](handler \in {"message", "chain"} => Len(setResults) <= 1)
    /\ [][(handler \in {"message", "chain"} /\ objectives' # objectives) =>
             /\ setResults = <<>>
             /\ setResults' = <<"ok">>
             /\ objectives[target] # NilObjective
             /\ objectives'[target].id = target
             /\ \A id \in ObjectiveIds \ {target} : objectives'[id] = objectives[id]]_vars

\* C26 happens: a message's handler has written the objective it loaded, which
\* the write changed, while another objective is stored beside it.
C26_Witness ==
    /\ handler = "message"
    /\ pc = "UpdateProgressLastMadeAt"
    /\ setResults = <<"ok">>
    /\ objectives[target] = cranked.obj
    /\ sent # <<>>
    /\ \E id \in ObjectiveIds \ {target} : objectives[id] # NilObjective

====
